---- MODULE Spec2Model ----
(***************************************************************************)
(* AppRouter (src/src/AppRouter.tsx): the component that maps the current  *)
(* url to one registered micro application, tracks which application is    *)
(* loading, and shows the loading / not-found / error placeholders.        *)
(*                                                                         *)
(* Every handler runs to completion on the single JavaScript thread, so    *)
(* each one is one action.  The handlers are called from history events    *)
(* and asset-loading callbacks, where setState re-renders synchronously:   *)
(* an action that calls setState includes the render() that follows it     *)
(* and the mounting / unmounting of the AppRoute child that render()       *)
(* returns.                                                                *)
(***************************************************************************)
EXTENDS Integers, Sequences, FiniteSets, TLC

VARIABLES
    props,       \* this.props: [children, basename]; read-only for the router
    state,       \* this.state: [url, appLoading, started]
    unmounted,   \* private unmounted
    err,         \* private err
    appKey,      \* private appKey
    cache,       \* the 'basename' slot written by setCache
    view,        \* what the last render() returned
    lifecycle,   \* "constructed" | "mounted" | "unmounted"
    listening,   \* window has the 'icestark:not-found' listener of this router
    collab,      \* the asset collaborator: "idle" | "started" | "unloaded"
    last,        \* the handler that ran last, its arguments, the state it found
    fired,       \* the host callbacks the last handler invoked, in order
    hookTrace,   \* the most recent onAppEnter / onAppLeave calls of the mounted
                 \* router, oldest first
    activeLoads, \* the names whose loading-start came while they were the
                 \* active key and whose loading-finish has not come yet
    loads        \* the load the collaborator started last: its name, how many
                 \* loads of that name are in flight, and whether a
                 \* loading-finish of that name came since it started
                 \* (both records are kept while the router is mounted)

vars == <<props, state, unmounted, err, appKey, cache, view, lifecycle,
          listening, collab, last, fired, hookTrace, activeLoads,
          loads>>

\* Length of the window of enter / leave calls kept in hookTrace.
MaxTrace == 3

\* The most loads of one name the collaborator has in flight at a time.
MaxLoads == 2

-----------------------------------------------------------------------------
(* Strings and urls *)

\* Array.prototype.join(',') on a sequence of strings.
RECURSIVE JoinComma(_)
JoinComma(s) ==
    IF Len(s) = 0 THEN ""
    ELSE IF Len(s) = 1 THEN s[1]
    ELSE s[1] \o "," \o JoinComma(Tail(s))

\* url sentinels exported by util/constant.
ICESTSRK_NOT_FOUND == "/icestark_404"
ICESTSRK_ERROR == "/icestark_error"

\* The query object of a location as it is written in a url.
QueryString(q) ==
    IF Len(q) = 0 THEN ""
    ELSE "?" \o JoinComma([i \in 1..Len(q) |-> q[i][1] \o "=" \o q[i][2]])

\* location.href of a location.
Href(l) == l.origin \o l.pathname \o QueryString(l.query) \o l.hash

Loc(pathname, query, hash) ==
    [origin |-> "http://h", pathname |-> pathname, query |-> query, hash |-> hash]

\* The locations the browser visits.
Locations ==
    { Loc("/a", <<>>, ""),
      Loc("/b", <<>>, ""),
      Loc("/c", <<>>, ""),
      Loc("/a", << <<"x", "1">> >>, "#top") }

Hrefs == { Href(l) : l \in Locations }

\* urlParse(url, true): the pathname, query object and hash of a url.
urlParse(url) ==
    LET l == CHOOSE x \in Locations : Href(x) = url
    IN  [pathname |-> l.pathname, query |-> l.query, hash |-> l.hash]

RouteTypes == {"pushState", "popstate"}

-----------------------------------------------------------------------------
(* Route definitions: the children of <AppRouter> *)

\* An element of a path array: a string, or a PathData object (its keys in
\* insertion order).
StrItem(s) == [obj |-> FALSE, str |-> s, fields |-> <<>>]
ObjItem(fields) == [obj |-> TRUE, str |-> "", fields |-> fields]

\* The path prop: a string or an array of items.
StrPath(s) == [isArray |-> FALSE, str |-> s, items |-> <<>>]
ArrPath(items) == [isArray |-> TRUE, str |-> "", items |-> items]

\* A child of the router.  valid = React.isValidElement(child); name and
\* basename are "" when the prop is absent.
Route(path, name, basename) ==
    [valid |-> TRUE, path |-> path, name |-> name, basename |-> basename]
NotAnElement ==
    [valid |-> FALSE, path |-> StrPath(""), name |-> "", basename |-> ""]

\* item[key] of a PathData object, "" when the key is absent.
RECURSIVE Field(_, _)
Field(fields, key) ==
    IF Len(fields) = 0 THEN ""
    ELSE IF fields[1][1] = key THEN fields[1][2]
    ELSE Field(Tail(fields), key)

ChildrenLists ==
    { <<>>,
      << Route(StrPath("/a"), "app-a", ""),
         Route(StrPath("/b"), "app-b", "/bb") >>,
      << NotAnElement,
         Route(ArrPath(<< StrItem("/a"),
                          ObjItem(<< <<"value", "/b">>, <<"exact", "true">> >>) >>),
               "", ""),
         Route(StrPath("/b"), "app-b", "") >>,
      << Route(ArrPath(<< StrItem("/a"), StrItem("/b") >>), "", ""),
         Route(StrPath("/c"), "/a,/b", "") >> }

Basenames == {"/root"}

-----------------------------------------------------------------------------
(* Pure functions *)

\* converArray2String, lines 42-52.
ItemString(item) ==
    IF item.obj
    THEN JoinComma([i \in 1..Len(item.fields) |->
                       item.fields[i][1] \o ":" \o item.fields[i][2]])
    ELSE item.str

converArray2String(list) ==
    IF list.isArray
    THEN JoinComma([i \in 1..Len(list.items) |-> ItemString(list.items[i])])
    ELSE list.str

\* The path strings a path prop stands for.
PathValues(path) ==
    IF path.isArray
    THEN { IF path.items[i].obj THEN Field(path.items[i].fields, "value")
                                ELSE path.items[i].str : i \in 1..Len(path.items) }
    ELSE { path.str }

NoMatch == [matched |-> FALSE, path |-> "", url |-> ""]

\* matchActivePath(url, child.props): the match of the url's pathname against
\* the child's path, or null.
matchActivePath(url, childProps) ==
    LET pathname == urlParse(url).pathname
    IN  IF pathname \in PathValues(childProps.path)
        THEN [matched |-> TRUE, path |-> pathname, url |-> pathname]
        ELSE NoMatch

-----------------------------------------------------------------------------
(* render(), lines 163-217 *)

NoLocation == [pathname |-> "", query |-> <<>>, hash |-> ""]

\* renderComponent(LoadingComponent, {}) while the router has not started.
LoadingView ==
    [kind |-> "Loading", err |-> "", key |-> "", element |-> 0,
     loading |-> FALSE, location |-> NoLocation, match |-> NoMatch]

\* renderComponent(NotFoundComponent, {}).
NotFoundView ==
    [kind |-> "NotFound", err |-> "", key |-> "", element |-> 0,
     loading |-> FALSE, location |-> NoLocation, match |-> NoMatch]

\* renderComponent(ErrorComponent, { err: this.err }).
ErrorView(e) ==
    [kind |-> "Error", err |-> e, key |-> "", element |-> 0,
     loading |-> FALSE, location |-> NoLocation, match |-> NoMatch]

\* The <div> holding the loading placeholder (when loading) and the clone of
\* the matched child with key, name, componentProps and cssLoading.
AppView(key, element, loading, location, match) ==
    [kind |-> "App", err |-> "", key |-> key, element |-> element,
     loading |-> loading, location |-> location, match |-> match]

\* A forEach callback that does not stop at the first match.
ChildStepLastWins(acc, child, i, url) ==
    IF child.valid
    THEN [element |-> i, match |-> matchActivePath(url, child)]
    ELSE acc

\* The callback of React.Children.forEach, lines 186-191.
ChildStep(acc, child, i, url) ==
    IF ~acc.match.matched /\ child.valid
    THEN [element |-> i, match |-> matchActivePath(url, child)]
    ELSE acc

\* React.Children.forEach over the children from index i on, lines 184-191.
RECURSIVE ForEachChild(_, _, _, _)
ForEachChild(children, url, i, acc) ==
    IF i > Len(children) THEN acc
    ELSE ForEachChild(children, url, i + 1, ChildStep(acc, children[i], i, url))

\* name || converArray2String(path), line 196.
KeyOf(el) == IF el.name # "" THEN el.name ELSE converArray2String(el.path)

\* The value given to setCache('basename', ...), line 195.
BasenameOf(appBasename, el) ==
    appBasename \o
    ( IF el.basename # "" THEN el.basename
      ELSE IF el.path.isArray
           THEN LET first == el.path.items[1]
                IN  IF first.obj
                    THEN IF Field(first.fields, "value") # ""
                         THEN Field(first.fields, "value")
                         ELSE "[object Object]"
                    ELSE first.str
           ELSE el.path.str )

\* A render() that clones the matched child without a key.
renderNoKey(p, st, e, key, c) ==
    IF ~st.started
    THEN [view |-> LoadingView, appKey |-> key, cache |-> c]
    ELSE IF st.url = ICESTSRK_NOT_FOUND
    THEN [view |-> NotFoundView, appKey |-> key, cache |-> c]
    ELSE IF st.url = ICESTSRK_ERROR
    THEN [view |-> ErrorView(e), appKey |-> key, cache |-> c]
    ELSE LET found == ForEachChild(p.children, st.url, 1,
                                   [element |-> 0, match |-> NoMatch])
         IN  IF found.match.matched
             THEN LET el == p.children[found.element]
                      k  == KeyOf(el)
                  IN  [view   |-> AppView("", found.element, st.appLoading = k,
                                          urlParse(st.url), found.match),
                       appKey |-> k,
                       cache  |-> BasenameOf(p.basename, el)]
             ELSE [view |-> NotFoundView, appKey |-> key, cache |-> c]

\* A render() that matches the location before the router has started.
renderIgnoresStarted(p, st, e, key, c) ==
    IF st.url = ICESTSRK_NOT_FOUND
    THEN [view |-> NotFoundView, appKey |-> key, cache |-> c]
    ELSE IF st.url = ICESTSRK_ERROR
    THEN [view |-> ErrorView(e), appKey |-> key, cache |-> c]
    ELSE LET found == ForEachChild(p.children, st.url, 1,
                                   [element |-> 0, match |-> NoMatch])
         IN  IF found.match.matched
             THEN LET el == p.children[found.element]
                      k  == KeyOf(el)
                  IN  [view   |-> AppView(k, found.element, st.appLoading = k,
                                          urlParse(st.url), found.match),
                       appKey |-> k,
                       cache  |-> BasenameOf(p.basename, el)]
             ELSE [view |-> NotFoundView, appKey |-> key, cache |-> c]

\* render(): the view returned and the two writes it makes on the way
\* (this.appKey and the basename slot).
render(p, st, e, key, c) ==
    IF ~st.started
    THEN [view |-> LoadingView, appKey |-> key, cache |-> c]
    ELSE IF st.url = ICESTSRK_NOT_FOUND
    THEN [view |-> NotFoundView, appKey |-> key, cache |-> c]
    ELSE IF st.url = ICESTSRK_ERROR
    THEN [view |-> ErrorView(e), appKey |-> key, cache |-> c]
    ELSE LET found == ForEachChild(p.children, st.url, 1,
                                   [element |-> 0, match |-> NoMatch])
         IN  IF found.match.matched
             THEN LET el == p.children[found.element]
                      k  == KeyOf(el)
                  IN  [view   |-> AppView(k, found.element, st.appLoading = k,
                                          urlParse(st.url), found.match),
                       appKey |-> k,
                       cache  |-> BasenameOf(p.basename, el)]
             ELSE [view |-> NotFoundView, appKey |-> key, cache |-> c]

-----------------------------------------------------------------------------
(* Host callbacks *)

\* One invocation of a host callback.
Call(hook, name) ==
    [hook |-> hook, name |-> name, pathname |-> "", query |-> <<>>,
     hash |-> "", type |-> ""]

\* this.props.onRouteChange(pathname, query, hash, type), lines 140-141.
RouteChangeCall(url, type) ==
    LET l == urlParse(url)
    IN  [hook |-> "onRouteChange", name |-> "", pathname |-> l.pathname,
         query |-> l.query, hash |-> l.hash, type |-> type]

\* The AppRoute child rendered under key appKey is unmounted when the view
\* stops showing that key and mounted when the view starts showing a key: it
\* calls onAppLeave when it goes and onAppEnter when it comes, the leaving
\* child first.
ChildHooks(old, new) ==
    LET gone == old.kind = "App" /\ (new.kind # "App" \/ new.key # old.key)
        come == new.kind = "App" /\ (old.kind # "App" \/ new.key # old.key)
    IN  (IF gone THEN << Call("onAppLeave", old.key) >> ELSE << >>)
        \o (IF come THEN << Call("onAppEnter", new.key) >> ELSE << >>)

\* The last MaxTrace elements of s.
LastN(s) ==
    IF Len(s) <= MaxTrace THEN s
    ELSE SubSeq(s, Len(s) - MaxTrace + 1, Len(s))

-----------------------------------------------------------------------------
(* The handlers *)

Signal(kind, name, url, type, e) ==
    [kind |-> kind, name |-> name, url |-> url, type |-> type, err |-> e]

\* What the handler found when it was called.
Snapshot ==
    [state |-> state, appKey |-> appKey, err |-> err, view |-> view,
     cache |-> cache, unmounted |-> unmounted, activeLoads |-> activeLoads]

\* this.setState(newState) in a mounted router, with this.err already set to
\* newErr: render() runs, the AppRoute child is mounted or unmounted, and
\* then the handler goes on to make the calls in `after`.
Update(newState, newErr, after, sig) ==
    LET r     == render(props, newState, newErr, appKey, cache)
        hooks == ChildHooks(view, r.view)
    IN  /\ state' = newState
        /\ err' = newErr
        /\ appKey' = r.appKey
        /\ cache' = r.cache
        /\ view' = r.view
        /\ fired' = hooks \o after
        /\ hookTrace' = LastN(hookTrace \o hooks)
        /\ last' = [sig |-> sig, pre |-> Snapshot]

\* A handler that returns without calling setState, making the calls in
\* `after`.
NoUpdate(after, sig) ==
    /\ fired' = after
    /\ last' = [sig |-> sig, pre |-> Snapshot]
    /\ UNCHANGED <<state, err, appKey, cache, view, hookTrace>>

\* start(...) of the collaborator: it takes the handlers and starts.
start == collab' = "started"

\* unload() of the collaborator.
unload == collab' = "unloaded"

\* A componentDidMount that does not set started.
componentDidMountNoStart ==
    /\ lifecycle = "constructed"
    /\ lifecycle' = "mounted"
    /\ listening' = TRUE
    /\ start
    /\ NoUpdate(<< >>, Signal("mount", "", "", "", ""))
    /\ UNCHANGED <<props, unmounted>>

\* componentDidMount, lines 86-107.
componentDidMount ==
    /\ lifecycle = "constructed"
    /\ lifecycle' = "mounted"
    /\ listening' = TRUE
    /\ start
    /\ Update([state EXCEPT !.started = TRUE], err, << >>,
              Signal("mount", "", "", "", ""))
    /\ UNCHANGED <<props, unmounted>>

\* A componentWillUnmount whose setState renders once more.
componentWillUnmountRenders ==
    /\ lifecycle = "mounted"
    /\ lifecycle' = "unmounted"
    /\ unmounted' = TRUE
    /\ listening' = FALSE
    /\ unload
    /\ Update([state EXCEPT !.started = FALSE], err, << >>,
              Signal("unmount", "", "", "", ""))
    /\ UNCHANGED props

\* A componentWillUnmount that leaves the not-found listener on the window.
componentWillUnmountKeepsListener ==
    /\ lifecycle = "mounted"
    /\ lifecycle' = "unmounted"
    /\ unmounted' = TRUE
    /\ unload
    /\ \E taken \in BOOLEAN :
          state' = IF taken THEN [state EXCEPT !.started = FALSE] ELSE state
    /\ fired' = << >>
    /\ last' = [sig |-> Signal("unmount", "", "", "", ""), pre |-> Snapshot]
    /\ hookTrace' = << >>
    /\ UNCHANGED <<props, err, appKey, cache, view, listening>>

\* componentWillUnmount, lines 109-114.  The router is leaving the tree and
\* nothing renders again.  The setState of line 113 is a request to a
\* component that is being unmounted: this.state takes the update or the
\* request is discarded with the component.
componentWillUnmount ==
    /\ lifecycle = "mounted"
    /\ lifecycle' = "unmounted"
    /\ unmounted' = TRUE
    /\ listening' = FALSE
    /\ unload
    /\ \E taken \in BOOLEAN :
          state' = IF taken THEN [state EXCEPT !.started = FALSE] ELSE state
    /\ fired' = << >>
    /\ last' = [sig |-> Signal("unmount", "", "", "", ""), pre |-> Snapshot]
    /\ hookTrace' = << >>
    /\ UNCHANGED <<props, err, appKey, cache, view>>

\* A triggerError that also clears appLoading.
triggerErrorClearsLoading(e) ==
    LET sig == Signal("error", "", "", "", e)
    IN  /\ IF unmounted
           THEN NoUpdate(<< >>, sig)
           ELSE Update([state EXCEPT !.url = ICESTSRK_ERROR, !.appLoading = ""],
                       e, << >>, sig)
        /\ UNCHANGED <<props, unmounted, lifecycle, listening, collab>>

\* triggerError, lines 119-125.
triggerError(e) ==
    LET sig == Signal("error", "", "", "", e)
    IN  /\ IF unmounted
           THEN NoUpdate(<< >>, sig)
           ELSE Update([state EXCEPT !.url = ICESTSRK_ERROR], e, << >>, sig)
        /\ UNCHANGED <<props, unmounted, lifecycle, listening, collab>>

\* A triggerNotFound that is ignored while the error url is stored.
triggerNotFoundKeepsError ==
    LET sig == Signal("not-found", "", "", "", "")
    IN  /\ IF unmounted \/ state.url = ICESTSRK_ERROR
           THEN NoUpdate(<< >>, sig)
           ELSE Update([state EXCEPT !.url = ICESTSRK_NOT_FOUND], err, << >>, sig)
        /\ UNCHANGED <<props, unmounted, lifecycle, listening, collab>>

\* A triggerNotFound that stores nothing.
triggerNotFoundNoSet ==
    LET sig == Signal("not-found", "", "", "", "")
    IN  /\ NoUpdate(<< >>, sig)
        /\ UNCHANGED <<props, unmounted, lifecycle, listening, collab>>

\* triggerNotFound, lines 127-131.
triggerNotFound ==
    LET sig == Signal("not-found", "", "", "", "")
    IN  /\ IF unmounted
           THEN NoUpdate(<< >>, sig)
           ELSE Update([state EXCEPT !.url = ICESTSRK_NOT_FOUND], err, << >>, sig)
        /\ UNCHANGED <<props, unmounted, lifecycle, listening, collab>>

\* A handleRouteChange that never stores the url.
handleRouteChangeNoSet(url, type) ==
    LET sig == Signal("navigation", "", url, type, "")
    IN  /\ NoUpdate(<< RouteChangeCall(url, type) >>, sig)
        /\ UNCHANGED <<props, unmounted, lifecycle, listening, collab>>

\* A handleRouteChange that calls onRouteChange only for a new url.
handleRouteChangeDedup(url, type) ==
    LET sig == Signal("navigation", "", url, type, "")
    IN  /\ IF ~unmounted /\ url # state.url
           THEN Update([state EXCEPT !.url = url], err,
                       << RouteChangeCall(url, type) >>, sig)
           ELSE NoUpdate(<< >>, sig)
        /\ UNCHANGED <<props, unmounted, lifecycle, listening, collab>>

\* A handleRouteChange that also clears appLoading when it stores the url.
handleRouteChangeClearsLoading(url, type) ==
    LET sig == Signal("navigation", "", url, type, "")
    IN  /\ IF ~unmounted /\ url # state.url
           THEN Update([state EXCEPT !.url = url, !.appLoading = ""], err,
                       << RouteChangeCall(url, type) >>, sig)
           ELSE NoUpdate(<< RouteChangeCall(url, type) >>, sig)
        /\ UNCHANGED <<props, unmounted, lifecycle, listening, collab>>

\* A handleRouteChange without the unmounted guard.
handleRouteChangeNoGuard(url, type) ==
    LET sig == Signal("navigation", "", url, type, "")
    IN  /\ IF url # state.url
           THEN Update([state EXCEPT !.url = url], err,
                       << RouteChangeCall(url, type) >>, sig)
           ELSE NoUpdate(<< RouteChangeCall(url, type) >>, sig)
        /\ UNCHANGED <<props, unmounted, lifecycle, listening, collab>>

\* handleRouteChange, lines 136-142.
handleRouteChange(url, type) ==
    LET sig == Signal("navigation", "", url, type, "")
    IN  /\ IF ~unmounted /\ url # state.url
           THEN Update([state EXCEPT !.url = url], err,
                       << RouteChangeCall(url, type) >>, sig)
           ELSE NoUpdate(<< RouteChangeCall(url, type) >>, sig)
        /\ UNCHANGED <<props, unmounted, lifecycle, listening, collab>>

\* A loadingApp without the unmounted guard.
loadingAppNoGuard(app) ==
    LET sig == Signal("loading-start", app.name, "", "", "")
    IN  /\ Update([state EXCEPT !.appLoading = app.name], err,
                  << Call("onLoadingApp", app.name) >>, sig)
        /\ UNCHANGED <<props, unmounted, lifecycle, listening, collab>>

\* A loadingApp that calls onLoadingApp only when the name is not already
\* the one loading.
loadingAppOncePerKey(app) ==
    LET sig == Signal("loading-start", app.name, "", "", "")
    IN  /\ IF unmounted
           THEN NoUpdate(<< >>, sig)
           ELSE Update([state EXCEPT !.appLoading = app.name], err,
                       IF state.appLoading = app.name
                       THEN << >>
                       ELSE << Call("onLoadingApp", app.name) >>, sig)
        /\ UNCHANGED <<props, unmounted, lifecycle, listening, collab>>

\* loadingApp, lines 144-150.
loadingApp(app) ==
    LET sig == Signal("loading-start", app.name, "", "", "")
    IN  /\ IF unmounted
           THEN NoUpdate(<< >>, sig)
           ELSE Update([state EXCEPT !.appLoading = app.name], err,
                       << Call("onLoadingApp", app.name) >>, sig)
        /\ UNCHANGED <<props, unmounted, lifecycle, listening, collab>>

\* A finishLoading that compares the name with this.appKey.
finishLoadingByActiveKey(app) ==
    LET sig == Signal("loading-finish", app.name, "", "", "")
    IN  /\ IF unmounted
           THEN NoUpdate(<< >>, sig)
           ELSE IF appKey = app.name
           THEN Update([state EXCEPT !.appLoading = ""], err,
                       << Call("onFinishLoading", app.name) >>, sig)
           ELSE NoUpdate(<< >>, sig)
        /\ UNCHANGED <<props, unmounted, lifecycle, listening, collab>>

\* A finishLoading that honours every name.
finishLoadingAnyKey(app) ==
    LET sig == Signal("loading-finish", app.name, "", "", "")
    IN  /\ IF unmounted
           THEN NoUpdate(<< >>, sig)
           ELSE Update([state EXCEPT !.appLoading = ""], err,
                       << Call("onFinishLoading", app.name) >>, sig)
        /\ UNCHANGED <<props, unmounted, lifecycle, listening, collab>>

\* A finishLoading that calls onFinishLoading and leaves appLoading set.
finishLoadingKeepsKey(app) ==
    LET sig == Signal("loading-finish", app.name, "", "", "")
    IN  /\ IF unmounted
           THEN NoUpdate(<< >>, sig)
           ELSE IF state.appLoading = app.name
           THEN Update(state, err,
                       << Call("onFinishLoading", app.name) >>, sig)
           ELSE NoUpdate(<< >>, sig)
        /\ UNCHANGED <<props, unmounted, lifecycle, listening, collab>>

\* finishLoading, lines 152-161.
finishLoading(app) ==
    LET sig == Signal("loading-finish", app.name, "", "", "")
    IN  /\ IF unmounted
           THEN NoUpdate(<< >>, sig)
           ELSE IF state.appLoading = app.name
           THEN Update([state EXCEPT !.appLoading = ""], err,
                       << Call("onFinishLoading", app.name) >>, sig)
           ELSE NoUpdate(<< >>, sig)
        /\ UNCHANGED <<props, unmounted, lifecycle, listening, collab>>

-----------------------------------------------------------------------------
(* The system *)

\* The names of the applications the collaborator reports on: the keys of
\* the registered definitions.
AppNames ==
    { KeyOf(l[i]) : <<l, i>> \in { <<l, i>> \in ChildrenLists \X (1..3) :
                                     i <= Len(l) /\ l[i].valid } }

Apps == { [name |-> n] : n \in AppNames }

\* Error payloads.
Errors == {"boom", "assets"}

\* The collaborator has started no load.
NoLoads == [name |-> "", open |-> 0, finished |-> FALSE]

\* The constructor, lines 56-60 and 77-84, and the first render().
Init ==
    /\ props \in [children : ChildrenLists, basename : Basenames]
    /\ state \in [url : Hrefs, appLoading : {""}, started : {FALSE}]
    /\ unmounted = FALSE
    /\ err = ""
    /\ LET r == render(props, state, "", "", "")
       IN  /\ appKey = r.appKey
           /\ cache = r.cache
           /\ view = r.view
    /\ lifecycle = "constructed"
    /\ listening = FALSE
    /\ collab = "idle"
    /\ last = [sig |-> Signal("construct", "", "", "", ""),
               pre |-> [state |-> state, appKey |-> "", err |-> "",
                        view |-> LoadingView, cache |-> "",
                        unmounted |-> FALSE, activeLoads |-> {}]]
    /\ fired = << >>
    /\ hookTrace = << >>
    /\ activeLoads = {}
    /\ loads = NoLoads

\* The collaborator and the window call the handlers they were given in
\* componentDidMount; a load started before the unmount may still report
\* after it.
Delivered == lifecycle # "constructed"

\* The loads in flight that began for the active application, after the
\* collaborator reports the start of the load of `app`.
LoadStarted(app) ==
    IF ~unmounted /\ view.kind = "App" /\ view.key = app.name
    THEN activeLoads \cup {app.name}
    ELSE activeLoads

\* The loads in flight that began for the active application, after the
\* collaborator reports the end of a load of `app`.
LoadFinished(app) ==
    IF unmounted THEN activeLoads ELSE activeLoads \ {app.name}

\* The collaborator's loads, as a mounted router is told of them, after the
\* start of a load of `app` is reported.
LoadsAfterStart(app) ==
    IF unmounted THEN NoLoads
    ELSE IF app.name = loads.name
    THEN [name |-> app.name, open |-> loads.open + 1, finished |-> FALSE]
    ELSE [name |-> app.name, open |-> 1, finished |-> FALSE]

\* The collaborator's loads after the end of a load of `app` is reported:
\* the oldest load of that name is over.
LoadsAfterFinish(app) ==
    IF unmounted THEN NoLoads
    ELSE IF app.name = loads.name
    THEN [name |-> loads.name,
          open |-> IF loads.open > 0 THEN loads.open - 1 ELSE 0,
          finished |-> TRUE]
    ELSE loads

\* The collaborator's loads after an error is reported: the loads in flight
\* have failed.
LoadsAfterError == IF unmounted THEN NoLoads ELSE [loads EXCEPT !.open = 0]

\* The collaborator starts another load of `app`.
CanStart(app) == unmounted \/ app.name # loads.name \/ loads.open < MaxLoads

Next ==
    \/ componentDidMount /\ UNCHANGED <<activeLoads, loads>>
    \/ componentWillUnmount /\ activeLoads' = {} /\ loads' = NoLoads
    \/ \E e \in Errors :
           Delivered /\ triggerError(e)
           /\ loads' = LoadsAfterError /\ UNCHANGED activeLoads
    \/ Delivered /\ triggerNotFound /\ UNCHANGED <<activeLoads, loads>>
    \/ \E url \in Hrefs, type \in RouteTypes :
           Delivered /\ handleRouteChange(url, type)
           /\ UNCHANGED <<activeLoads, loads>>
    \/ \E app \in Apps :
           Delivered /\ CanStart(app) /\ loadingApp(app)
           /\ activeLoads' = LoadStarted(app)
           /\ loads' = LoadsAfterStart(app)
    \/ \E app \in Apps :
           Delivered /\ finishLoading(app)
           /\ activeLoads' = LoadFinished(app)
           /\ loads' = LoadsAfterFinish(app)

Spec == Init /\ [][Next]_vars

-----------------------------------------------------------------------------
(* Vocabulary of the properties *)

\* The phase the router shows: Booting while render() returns the loading
\* placeholder of a router that has not started, Normal while it returns a
\* matched child.
Phase ==
    CASE view.kind = "Loading"  -> "Booting"
      [] view.kind = "App"      -> "Normal"
      [] view.kind = "NotFound" -> "NotFound"
      [] view.kind = "Error"    -> "Error"

\* The registered definitions that match a url, by registration index.
MatchingIndices(url) ==
    { i \in 1..Len(props.children) :
        /\ props.children[i].valid
        /\ \E l \in Locations :
              /\ Href(l) = url
              /\ l.pathname \in PathValues(props.children[i].path) }

Lowest(S) == CHOOSE i \in S : \A j \in S : i <= j

\* The calls in a sequence of calls that were made to one of the hooks.
RECURSIVE CallsTo(_, _)
CallsTo(hooks, calls) ==
    IF Len(calls) = 0 THEN << >>
    ELSE IF calls[1].hook \in hooks
         THEN << calls[1] >> \o CallsTo(hooks, Tail(calls))
         ELSE CallsTo(hooks, Tail(calls))

\* The last handler was this signal, delivered before the teardown.
LiveSignal(kind) == last.sig.kind = kind /\ ~last.pre.unmounted

\* The last handler was this signal, delivered after the teardown.
LateSignal(kind) == last.sig.kind = kind /\ last.pre.unmounted

-----------------------------------------------------------------------------
(* Properties *)

\* C1: a loading-finish for key A delivered while the LoadingKey is another
\* key B (loading-start(B) came after loading-start(A)) is a no-op: it leaves
\* appLoading at B and calls no hook.  onFinishLoading is called only by the
\* loading-finish whose key is the LoadingKey, and only that signal clears
\* the LoadingKey.
StaleFinishIsNoOp ==
    /\ ( /\ last.sig.kind = "loading-finish"
         /\ last.pre.state.appLoading # ""
         /\ last.sig.name # last.pre.state.appLoading )
       => ( /\ state.appLoading = last.pre.state.appLoading
            /\ view = last.pre.view
            /\ fired = << >> )
    /\ \A i \in 1..Len(fired) :
          fired[i].hook = "onFinishLoading"
          => ( /\ last.sig.kind = "loading-finish"
               /\ fired[i].name = last.sig.name
               /\ last.sig.name = last.pre.state.appLoading )
    /\ (last.pre.state.appLoading # "" /\ state.appLoading = "")
       => ( /\ last.sig.kind = "loading-finish"
            /\ last.sig.name = last.pre.state.appLoading )

\* A loading-finish for another key than the LoadingKey has just been
\* delivered to a mounted router.
StaleFinishDelivered ==
    /\ LiveSignal("loading-finish")
    /\ last.pre.state.appLoading # ""
    /\ last.sig.name # last.pre.state.appLoading
    /\ state.appLoading = last.pre.state.appLoading

\* The case of C2: loading-start(A) came while A was the active key, a
\* navigation has made another key active, and loading-finish(A) has just
\* been delivered, before the teardown.
FinishOfSupersededActive ==
    /\ LiveSignal("loading-finish")
    /\ last.sig.name \in last.pre.activeLoads
    /\ last.pre.view.kind = "App"
    /\ last.pre.view.key # last.sig.name

\* C2 as stated: the loading-finish of a key that is no longer the active key
\* neither clears the LoadingKey nor calls onFinishLoading.
SupersededFinishDropped ==
    FinishOfSupersededActive
    => (state.appLoading = last.pre.state.appLoading /\ fired = << >>)

\* C2 as amended: the loading-finish of a key that is no longer the active
\* key is dropped exactly when the LoadingKey is another key (a loading-start
\* for another key came in between); while the LoadingKey is still that key,
\* it clears the LoadingKey and calls onFinishLoading for it.
SupersededFinishFollowsLoadingKey ==
    FinishOfSupersededActive
    => IF last.pre.state.appLoading = last.sig.name
       THEN /\ state.appLoading = ""
            /\ fired = << Call("onFinishLoading", last.sig.name) >>
       ELSE /\ state.appLoading = last.pre.state.appLoading
            /\ fired = << >>

\* The late loading-finish of a superseded active key was honoured.
SupersededFinishHonoured ==
    /\ FinishOfSupersededActive
    /\ last.pre.state.appLoading = last.sig.name
    /\ state.appLoading = ""
    /\ Len(fired) = 1

\* C3: a loading-start, loading-finish, error or not-found signal delivered
\* after the teardown calls no hook and changes neither the url nor what is
\* shown, so it brings no Error or NotFound phase.
LateSignalsDropped ==
    ( \E k \in {"loading-start", "loading-finish", "error", "not-found"} :
          LateSignal(k) )
    => ( /\ fired = << >>
         /\ state.url = last.pre.state.url
         /\ view = last.pre.view )

\* A loading-start was delivered after the teardown.
LateLoadingStartDelivered ==
    /\ LateSignal("loading-start")
    /\ fired = << >>

\* C4: a navigation event delivered after the teardown changes nothing and
\* calls no onRouteChange.
LateNavigationDropped ==
    LateSignal("navigation")
    => ( /\ fired = << >>
         /\ state = last.pre.state
         /\ view = last.pre.view )

\* C5: the child render() shows is the matching definition of lowest
\* registration index, and the key, the match and the location passed on are
\* the ones of that definition.
FirstMatchWins ==
    view.kind = "App"
    => LET M == MatchingIndices(state.url)
       IN  /\ M # {}
           /\ view.element = Lowest(M)
           /\ view.key = KeyOf(props.children[Lowest(M)])
           /\ appKey = view.key
           /\ view.match.matched
           /\ \E l \in Locations :
                 /\ Href(l) = state.url
                 /\ view.match.url = l.pathname
                 /\ view.location.pathname = l.pathname
                 /\ view.location.query = l.query
                 /\ view.location.hash = l.hash

\* A url that two definitions match is shown, after a child that is no
\* element was skipped.
OverlapResolved ==
    /\ view.kind = "App"
    /\ Cardinality(MatchingIndices(state.url)) >= 2
    /\ view.element = 2
    /\ ~props.children[1].valid

\* C6: after a navigation event delivered to a mounted router the phase is
\* Normal when a registered definition matches the url and NotFound when
\* none does, whatever the phase was.
NavigationSetsPhase ==
    LiveSignal("navigation")
    => /\ state.url = last.sig.url
       /\ Phase = IF MatchingIndices(last.sig.url) # {}
                  THEN "Normal" ELSE "NotFound"

\* A navigation took the router from Error to Normal.
NavigatedOutOfError ==
    /\ LiveSignal("navigation")
    /\ last.pre.view.kind = "Error"
    /\ Phase = "Normal"

\* C7: an error signal delivered to a mounted router moves the phase to
\* Error, the payload shown is the payload of the signal, and the LoadingKey
\* is kept; as long as the phase is Error the payload shown is the one of
\* the most recent error signal.
ErrorRetainsPayload ==
    /\ LiveSignal("error")
       => ( /\ Phase = "Error"
            /\ view.err = last.sig.err
            /\ state.appLoading = last.pre.state.appLoading )
    /\ Phase = "Error" => (view.err = err /\ err \in Errors)
    /\ last.sig.kind # "error" => err = last.pre.err

\* error("boom") was delivered while a load was in flight.
ErrorDuringLoad ==
    /\ LiveSignal("error")
    /\ last.sig.err = "boom"
    /\ last.pre.state.appLoading # ""
    /\ state.appLoading = last.pre.state.appLoading
    /\ Phase = "Error"

\* The onRouteChange call the navigation event of the last handler asks for.
ExpectedRouteChange ==
    LET l == CHOOSE x \in Locations : Href(x) = last.sig.url
    IN  [hook |-> "onRouteChange", name |-> "", pathname |-> l.pathname,
         query |-> l.query, hash |-> l.hash, type |-> last.sig.type]

\* C8 as stated: onRouteChange is called once by a navigation event whose url
\* differs from the stored url and not at all by one whose url equals it.
NotifiedOnlyOnNewUrl ==
    LiveSignal("navigation")
    => CallsTo({"onRouteChange"}, fired) =
          IF last.sig.url # last.pre.state.url
          THEN << ExpectedRouteChange >> ELSE << >>

\* C8 as amended: every navigation event delivered before the teardown calls
\* onRouteChange exactly once, with the pathname, query and hash of its url
\* and its kind, whether or not the url differs from the stored url; no
\* other signal calls it.
NotifiedOnEveryNavigation ==
    /\ LiveSignal("navigation")
       => CallsTo({"onRouteChange"}, fired) = << ExpectedRouteChange >>
    /\ last.sig.kind # "navigation"
       => CallsTo({"onRouteChange"}, fired) = << >>

\* A navigation event carrying the stored url was notified.
SameUrlNotified ==
    /\ LiveSignal("navigation")
    /\ last.sig.url = last.pre.state.url
    /\ Len(fired) = 1
    /\ fired[1].hook = "onRouteChange"
    /\ fired[1].pathname = "/a"
    /\ fired[1].hash = "#top"

\* The key of the definition a url resolves to.
KeyFor(url) == KeyOf(props.children[Lowest(MatchingIndices(url))])

SignalInErrorPhase ==
    /\ ~last.pre.unmounted
    /\ last.pre.view.kind = "Error"
    /\ last.sig.kind \in {"navigation", "not-found", "loading-start",
                          "loading-finish", "error"}

\* C10 as stated: from Error only a navigation to a matching location moves
\* the phase, to Normal; every other signal leaves it Error.
ErrorUntilSuccessfulNavigation ==
    SignalInErrorPhase
    => Phase = IF /\ last.sig.kind = "navigation"
                  /\ MatchingIndices(last.sig.url) # {}
               THEN "Normal" ELSE "Error"

\* C10 as amended: in the Error phase, loading-start, loading-finish and
\* error signals leave the phase Error; a navigation event moves it to Normal
\* when its location matches a definition and to NotFound when none matches,
\* and a not-found signal moves it to NotFound.
ErrorLeftByNavigationOrNotFound ==
    SignalInErrorPhase
    => Phase = CASE last.sig.kind = "navigation" ->
                      IF MatchingIndices(last.sig.url) # {}
                      THEN "Normal" ELSE "NotFound"
                 [] last.sig.kind = "not-found" -> "NotFound"
                 [] OTHER -> "Error"

\* A not-found signal took the router from Error to NotFound.
NotFoundAfterError ==
    /\ SignalInErrorPhase
    /\ last.sig.kind = "not-found"
    /\ Phase = "NotFound"

-----------------------------------------------------------------------------
(* Phases *)

\* The phase a rendered view shows.
PhaseOf(v) ==
    CASE v.kind = "Loading"  -> "Booting"
      [] v.kind = "App"      -> "Normal"
      [] v.kind = "NotFound" -> "NotFound"
      [] v.kind = "Error"    -> "Error"

\* The phase the last handler found and the phase it left.
PhaseEdge == << PhaseOf(last.pre.view), Phase >>

\* The last handler changed the phase.
PhaseChanged == PhaseOf(last.pre.view) # Phase

\* The phase changes of the state table.
ListedEdges ==
    { <<"Booting", "Normal">>, <<"Booting", "NotFound">>, <<"Booting", "Error">>,
      <<"Normal", "NotFound">>, <<"NotFound", "Normal">>,
      <<"Normal", "Error">>, <<"Error", "Normal">> }

\* C11 as stated: every phase change is a listed edge, Booting is left at
\* the end of the initialization only, and the phase never moves from Error
\* to NotFound or from NotFound to Error.
OnlyListedEdges ==
    PhaseChanged
    => /\ PhaseEdge \in ListedEdges
       /\ PhaseEdge[1] = "Booting" => last.sig.kind = "mount"

\* C11 as amended: every phase change is Booting to Normal or NotFound (made
\* by componentDidMount and by nothing else), Normal to NotFound, NotFound to
\* Normal, Normal to Error, Error to Normal, Error to NotFound (a not-found
\* signal, or a navigation event no definition matches) or NotFound to Error
\* (an error signal); no handler returns the phase to Booting.  An error
\* signal delivered in NotFound moves the phase to Error.
PhaseEdgesOfTheCode ==
    /\ PhaseChanged
       => /\ PhaseEdge \in ( ListedEdges \ { <<"Booting", "Error">> } )
                           \cup { <<"Error", "NotFound">>,
                                  <<"NotFound", "Error">> }
          /\ PhaseEdge[1] = "Booting" => last.sig.kind = "mount"
          /\ PhaseEdge = <<"Error", "NotFound">>
             => last.sig.kind \in {"not-found", "navigation"}
          /\ PhaseEdge = <<"NotFound", "Error">> => last.sig.kind = "error"
    /\ ( LiveSignal("error") /\ PhaseOf(last.pre.view) = "NotFound" )
       => Phase = "Error"

\* An error signal took the router from NotFound to Error.
ErrorAfterNotFound ==
    /\ LiveSignal("error")
    /\ PhaseEdge = <<"NotFound", "Error">>

\* C12 as stated: Booting is the phase of the constructed router and of no
\* later state, and once state.started is true no handler, the teardown
\* included, makes it false.
StartedNeverReset ==
    /\ Phase = "Booting" <=> lifecycle = "constructed"
    /\ last.pre.state.started => state.started

\* C12 as amended: Booting is the initial phase and the phase of the
\* constructed router only; componentDidMount leaves it, for Normal when the
\* first location matches a definition and for NotFound when none does, and
\* no later state shows it.  state.started is false until componentDidMount
\* and true in every state of the mounted router; only componentWillUnmount
\* asks for it to be false again (line 113), and the view is not rendered
\* again after that.
BootingLeftOnce ==
    /\ Phase = "Booting" <=> lifecycle = "constructed"
    /\ lifecycle = "constructed" => ~state.started
    /\ lifecycle = "mounted" => state.started
    /\ last.sig.kind = "mount"
       => /\ PhaseOf(last.pre.view) = "Booting"
          /\ Phase = IF MatchingIndices(state.url) # {}
                     THEN "Normal" ELSE "NotFound"
    /\ ( last.pre.state.started /\ ~state.started )
       => /\ last.sig.kind = "unmount"
          /\ view = last.pre.view

\* The teardown made state.started false, and the view is not the loading
\* placeholder of Booting.
StartedFalseAtTeardown ==
    /\ last.sig.kind = "unmount"
    /\ last.pre.state.started
    /\ ~state.started
    /\ Phase # "Booting"

-----------------------------------------------------------------------------
(* Signals and the keys *)

\* C13 as stated: a not-found signal delivered before the teardown moves
\* the phase to NotFound and this.appKey no longer names the definition
\* that was matched before it.
NotFoundClearsActiveKey ==
    ( LiveSignal("not-found") /\ last.pre.view.kind = "App" )
    => /\ Phase = "NotFound"
       /\ appKey # last.pre.view.key

\* C13 as amended: a not-found signal delivered before the teardown moves
\* the phase to NotFound, and the view rendered has no key and no matched
\* definition; this.appKey is not written and keeps the key of the
\* definition matched last.
NotFoundKeepsTrackedKey ==
    LiveSignal("not-found")
    => /\ Phase = "NotFound"
       /\ view.key = ""
       /\ view.element = 0
       /\ appKey = last.pre.appKey

\* A not-found signal came while a definition was matched, and this.appKey
\* still names it.
NotFoundOverMatchedDefinition ==
    /\ LiveSignal("not-found")
    /\ last.pre.view.kind = "App"
    /\ appKey = last.pre.view.key
    /\ appKey # ""
    /\ Phase = "NotFound"

\* The last loading-start repeated the name that was already loading.
RepeatedLoadingStart ==
    /\ LiveSignal("loading-start")
    /\ last.pre.state.appLoading = last.sig.name

\* C14 as stated: a loading-start for K delivered before the teardown sets
\* appLoading to K, and onLoadingApp is called once per K: a loading-start
\* that repeats the name already loading does not call it again.
LoadingHookOncePerKey ==
    LiveSignal("loading-start")
    => /\ state.appLoading = last.sig.name
       /\ CallsTo({"onLoadingApp"}, fired) =
             IF RepeatedLoadingStart
             THEN << >>
             ELSE << Call("onLoadingApp", last.sig.name) >>

\* C14 as amended: a loading-start for K delivered before the teardown, in
\* any phase, sets appLoading to K and calls onLoadingApp for K exactly
\* once, also when K is already the name loading.
LoadingHookOncePerSignal ==
    LiveSignal("loading-start")
    => /\ state.appLoading = last.sig.name
       /\ CallsTo({"onLoadingApp"}, fired) =
             << Call("onLoadingApp", last.sig.name) >>

\* A loading-start repeated the name already loading, and onLoadingApp was
\* called again.
LoadingHookRepeated ==
    /\ RepeatedLoadingStart
    /\ Call("onLoadingApp", last.sig.name) = fired[Len(fired)]

\* A load of the name the collaborator started last is in flight: it was
\* started and has neither finished nor failed.
InFlight == loads.name # "" /\ loads.open > 0

\* C15 as stated: before the teardown appLoading is non-empty exactly while
\* the load it names is in flight: it is empty once that load has finished
\* or failed, and it names the load started last while one is in flight.
LoadingKeyExactlyWhileInFlight ==
    ~unmounted
    => /\ state.appLoading # "" <=> InFlight
       /\ InFlight => state.appLoading = loads.name

\* C15 as amended: before the teardown appLoading is the name of the load
\* started last until a loading-finish of that name is delivered, and empty
\* from then until the next loading-start.  An error signal does not clear
\* it, and the first loading-finish of a name clears it while a second load
\* of that name is in flight.
LoadingKeyUntilFinish ==
    ~unmounted
    => state.appLoading = IF loads.name # "" /\ ~loads.finished
                          THEN loads.name ELSE ""

\* The first of two loads of one name finished: appLoading is empty while
\* the second is in flight.
OverlappingLoadCleared ==
    /\ LiveSignal("loading-finish")
    /\ InFlight
    /\ last.sig.name = loads.name
    /\ state.appLoading = ""

-----------------------------------------------------------------------------
(* Initialization and teardown *)

\* The stored urls and loading names a state of the router can hold.
StoredUrls == Hrefs \cup {ICESTSRK_NOT_FOUND, ICESTSRK_ERROR}
LoadingNames == AppNames \cup {""}

\* C16: no route is resolved before the initialization completes.  While
\* the router is constructed and not yet mounted, state.started is false,
\* only the loading placeholder is rendered, this.appKey is not assigned and
\* the basename slot is not written; and whatever url and loading name a
\* signal would store while started is false, render() returns the
\* placeholder without running the matcher and writes neither this.appKey
\* nor the basename slot.
NoRouteResolvedWhileBooting ==
    /\ lifecycle = "constructed"
       => /\ ~state.started
          /\ view = LoadingView
          /\ appKey = ""
          /\ cache = ""
    /\ \A u \in StoredUrls, k \in LoadingNames, e \in Errors :
          render(props, [url |-> u, appLoading |-> k, started |-> FALSE],
                 e, appKey, cache)
          = [view |-> LoadingView, appKey |-> appKey, cache |-> cache]

\* The router is Booting at a location that a definition matches.
BootingAtMatchingLocation ==
    /\ lifecycle = "constructed"
    /\ ~state.started
    /\ MatchingIndices(state.url) # {}
    /\ view = LoadingView

\* C17: the router subscribes once, in componentDidMount, and releases
\* every subscription in componentWillUnmount.  The not-found listener is on
\* the window exactly while the router is mounted; the collaborator is idle
\* before componentDidMount, started exactly while the router is mounted and
\* unloaded in every state after the teardown, so that start precedes
\* unload and neither is repeated.
SubscribedWhileMounted ==
    /\ listening <=> lifecycle = "mounted"
    /\ collab = CASE lifecycle = "constructed" -> "idle"
                  [] lifecycle = "mounted"     -> "started"
                  [] lifecycle = "unmounted"   -> "unloaded"
    /\ unmounted <=> lifecycle = "unmounted"
    /\ last.sig.kind = "mount" => lifecycle = "mounted"
    /\ last.sig.kind = "unmount" => lifecycle = "unmounted"

\* componentWillUnmount has run on a mounted router: the listener is off
\* the window and the collaborator is unloaded.
SubscriptionsReleased ==
    /\ last.sig.kind = "unmount"
    /\ ~last.pre.unmounted
    /\ lifecycle = "unmounted"
    /\ ~listening
    /\ collab = "unloaded"

-----------------------------------------------------------------------------
(* Keys *)

\* The registered definitions, by registration index.
Definitions == { i \in 1..Len(props.children) : props.children[i].valid }

\* C18 as stated: the key of the matched definition is its name, or
\* converArray2String of its path when it has no name, and every registered
\* definition that differs from it in name or path has another key.
ActiveKeyIdentifiesDefinition ==
    view.kind = "App"
    => LET el == props.children[view.element]
       IN  /\ view.key = IF el.name # "" THEN el.name
                         ELSE converArray2String(el.path)
           /\ \A j \in Definitions :
                 ( props.children[j].name # el.name
                   \/ props.children[j].path # el.path )
                 => KeyOf(props.children[j]) # view.key

\* C19: appLoading is changed only by a loading-start, which sets it to the
\* signal's name, and by a loading-finish of the name it holds, which
\* clears it; error signals, not-found signals and navigation events leave
\* it as it was.  The matched child is rendered as loading exactly when
\* appLoading equals its key, so a name left by an interrupted load shows
\* the loading placeholder as soon as a definition with that key is active.
LoadingKeyFrame ==
    /\ state.appLoading =
          CASE LiveSignal("loading-start") -> last.sig.name
            [] LiveSignal("loading-finish")
               /\ last.sig.name = last.pre.state.appLoading -> ""
            [] OTHER -> last.pre.state.appLoading
    /\ view.kind = "App" => ( view.loading <=> state.appLoading = view.key )

\* A navigation out of Error made active the definition whose load the
\* error had interrupted, and it is shown as loading.
LeftoverLoadingShown ==
    /\ LiveSignal("navigation")
    /\ last.pre.view.kind = "Error"
    /\ last.pre.state.appLoading # ""
    /\ view.kind = "App"
    /\ view.key = state.appLoading
    /\ view.loading

\* C20: after the teardown the state is quiescent: whatever signal is
\* delivered to the torn-down router, the stored url, appLoading and the
\* retained error payload are what the handler found, and the teardown
\* itself leaves them as they were.
QuiescentAfterTeardown ==
    ( last.pre.unmounted \/ last.sig.kind = "unmount" )
    => /\ state.url = last.pre.state.url
       /\ state.appLoading = last.pre.state.appLoading
       /\ err = last.pre.err

\* A navigation event to another url came after the teardown, and the
\* stored url is the old one.
LateNavigationNotStored ==
    /\ LateSignal("navigation")
    /\ last.sig.url # state.url
    /\ state.url = last.pre.state.url

====
